---- MODULE Spec2Model ----
(***************************************************************************)
(* Model of the canvas widget (Mateholiker/canvas): the coordinate         *)
(* transform of src/src/position.rs, the per-frame input handling of       *)
(* Canvas::manage_user_input in src/src/lib.rs and the tick planner and    *)
(* the label printer of src/src/utility/coordinate_system.rs.              *)
(*                                                                         *)
(* f32 values are modelled as exact rationals [n |-> Int, d |-> Nat] in    *)
(* lowest terms, d > 0.  A record with d = 0 stands for a non-finite f32:  *)
(* n = 1 for +infinity, n = -1 for -infinity and n = 0 for NaN, with the   *)
(* IEEE 754 rules for them.  Rounding is not modelled, and neither is the  *)
(* sign of a zero: a division by zero takes the sign of its numerator.     *)
(* u64 is modelled 30 bits wide, and the smallest positive f64 as 10^-9.   *)
(***************************************************************************)
EXTENDS Integers, Sequences, FiniteSets, TLC

VARIABLES
    current_cutout,  \* CanvasState::current_cutout
    mode,            \* CanvasState::mode
    aspect_ratio,    \* CanvasState::aspect_ratio
    drawable,        \* the drawable the host passes to Canvas::new
    gui_space,       \* the rectangle the host's layout allocates to the widget
    frames,          \* number of frames processed
    zooms,           \* number of scrolls that zoomed
    ratio_set,       \* the host has called set_aspect_ratio
    planner,         \* the locals of a call of Tick::get_absolute_tick
    printer,         \* the locals of a call of Axis::print_float
    walker           \* the locals of a call of Axis::draw_mayor_ticks

canvas_vars == <<current_cutout, mode, aspect_ratio, drawable, gui_space,
                 frames, zooms, ratio_set>>

vars == <<canvas_vars, planner, printer, walker>>

----------------------------------------------------------------------------
(* Bounds of the model *)

\* number of frames (calls of Widget::ui) explored
MaxFrames == 3

\* number of major ticks on an axis line that is walked
MaxTicks == 12

\* number of zooming scrolls explored (every zoom multiplies the
\* denominators of the cutout by 9 or 10)
MaxZooms == 2

----------------------------------------------------------------------------
(* f32 arithmetic, as exact rationals *)

Abs(i) == IF i < 0 THEN -i ELSE i

RECURSIVE GCD(_, _)
GCD(a, b) == IF b = 0 THEN a ELSE GCD(b, a % b)

NaN == [n |-> 0, d |-> 0]

Sgn(i) == IF i > 0 THEN 1 ELSE IF i < 0 THEN -1 ELSE 0

\* the infinity of sign s; NaN for s = 0
Infinite(s) == [n |-> s, d |-> 0]

IsFinite(a) == a.d # 0

\* the rational num/den in lowest terms, den # 0
Frac(num, den) ==
    LET reduced(g) == IF den < 0
                      THEN [n |-> -(num \div g), d |-> -(den \div g)]
                      ELSE [n |-> num \div g, d |-> den \div g]
    IN  reduced(GCD(Abs(num), Abs(den)))

R(i) == [n |-> i, d |-> 1]

\* over the least common denominator, which keeps the products small
RAdd(a, b) == IF a.d = 0 /\ b.d = 0 THEN (IF a.n = b.n THEN a ELSE NaN)
              ELSE IF a.d = 0 THEN a
              ELSE IF b.d = 0 THEN b
              ELSE IF a.d = b.d THEN Frac(a.n + b.n, a.d)
              ELSE LET over(g) == Frac(a.n * (b.d \div g) + b.n * (a.d \div g),
                                       (a.d \div g) * b.d)
                   IN  over(GCD(a.d, b.d))

RNeg(a) == [n |-> -a.n, d |-> a.d]

RSub(a, b) == RAdd(a, RNeg(b))

\* cross-cancelling keeps the intermediate products small
RMul(a, b) == IF a.d = 0 \/ b.d = 0 THEN Infinite(Sgn(a.n) * Sgn(b.n))
              ELSE IF a.d = 1 /\ b.d = 1 THEN [n |-> a.n * b.n, d |-> 1]
              ELSE LET product(p, q) == [n |-> p.n * q.n, d |-> p.d * q.d]
                   IN  product(Frac(a.n, b.d), Frac(b.n, a.d))

RDiv(a, b) == IF b.d = 0
              THEN (IF a.d = 0 \/ b.n = 0 THEN NaN ELSE R(0))
              ELSE IF b.n = 0 THEN Infinite(Sgn(a.n))
              ELSE IF a.d = 0 THEN Infinite(Sgn(a.n) * Sgn(b.n))
              ELSE IF b.n < 0 THEN RMul(a, [n |-> -b.d, d |-> -b.n])
              ELSE RMul(a, [n |-> b.d, d |-> b.n])

\* f32 comparisons: false as soon as one side is not a number
RLt(a, b) == IF a.d = 0 \/ b.d = 0
             THEN /\ a # NaN /\ b # NaN
                  /\ IF a.d # 0 THEN b.n > 0
                     ELSE IF b.d # 0 THEN a.n < 0
                     ELSE a.n < b.n
             ELSE IF a.d = b.d THEN a.n < b.n
             ELSE IF a.n \div a.d # b.n \div b.d
             THEN a.n \div a.d < b.n \div b.d
             ELSE LET less(g) == a.n * (b.d \div g) < b.n * (a.d \div g)
                  IN  less(GCD(a.d, b.d))
RLe(a, b) == IF a.d = 0 \/ b.d = 0
             THEN /\ a # NaN /\ b # NaN
                  /\ IF a.d # 0 THEN b.n > 0
                     ELSE IF b.d # 0 THEN a.n < 0
                     ELSE a.n <= b.n
             ELSE IF a.d = b.d THEN a.n <= b.n
             ELSE IF a.n \div a.d # b.n \div b.d
             THEN a.n \div a.d < b.n \div b.d
             ELSE LET at_most(g) == a.n * (b.d \div g) <= b.n * (a.d \div g)
                  IN  at_most(GCD(a.d, b.d))
RGt(a, b) == RLt(b, a)

RAbs(a) == [n |-> Abs(a.n), d |-> a.d]

\* f32::powf for a whole exponent
RECURSIVE RPow(_, _)
RPow(a, k) == IF k = 0 THEN R(1)
              ELSE IF k < 0 THEN RDiv(R(1), RPow(a, -k))
              ELSE RMul(a, RPow(a, k - 1))

----------------------------------------------------------------------------
(* egui::Vec2 / Pos2 / Rect *)

Vec(x, y) == [x |-> x, y |-> y]

VAdd(u, v) == Vec(RAdd(u.x, v.x), RAdd(u.y, v.y))
VSub(u, v) == Vec(RSub(u.x, v.x), RSub(u.y, v.y))
VScale(u, k) == Vec(RMul(u.x, k), RMul(u.y, k))

Rect(lo, hi) == [min |-> lo, max |-> hi]

width(r) == RSub(r.max.x, r.min.x)
height(r) == RSub(r.max.y, r.min.y)
size(r) == Vec(width(r), height(r))
rect_aspect_ratio(r) == RDiv(width(r), height(r))
\* a shrink that leaves the rectangle as it is
shrink_nothing(r, amnt) == r

\* a shrink by twice the amount
shrink_twice(r, amnt) ==
    Rect(Vec(RAdd(r.min.x, RMul(R(2), amnt)), RAdd(r.min.y, RMul(R(2), amnt))),
         Vec(RSub(r.max.x, RMul(R(2), amnt)), RSub(r.max.y, RMul(R(2), amnt))))

shrink(r, amnt) == Rect(Vec(RAdd(r.min.x, amnt), RAdd(r.min.y, amnt)),
                        Vec(RSub(r.max.x, amnt), RSub(r.max.y, amnt)))
from_min_size(lo, sz) == Rect(lo, VAdd(lo, sz))
\* translate that moves the min corner only
translate_min_only(r, amnt) == Rect(VAdd(r.min, amnt), r.max)

translate(r, amnt) == from_min_size(VAdd(r.min, amnt), size(r))
contains(r, p) == /\ RLe(r.min.x, p.x) /\ RLe(p.x, r.max.x)
                  /\ RLe(r.min.y, p.y) /\ RLe(p.y, r.max.y)

----------------------------------------------------------------------------
(* src/src/position.rs *)

MIN_PADDING == 20

Gui(p) == [tag |-> "Gui", pos |-> p]
Overlay(p) == [tag |-> "Overlay", pos |-> p]
Canvas(p) == [tag |-> "Canvas", pos |-> p]

\* Position::calculate_padding_and_scaling_factor.  Each let of the
\* function is an operator applied to the value it binds, in the order of
\* the code.
calculate_padding_and_scaling_factor(gs, cutout, ar) ==
    LET result(scaling_factor, x_padding, y_padding, x_stretch, y_stretch) ==
            [padding |-> Vec(x_padding, y_padding),
             scaling_factor |-> Vec(RMul(scaling_factor, x_stretch),
                                    RMul(scaling_factor, y_stretch))]
        \* position.rs:123-130, the y axis is limiting
        y_limiting(scaling_factor, x_stretch, y_stretch) ==
            result(scaling_factor,
                   RDiv(RSub(width(gs),
                             RMul(RMul(width(cutout), scaling_factor),
                                  x_stretch)),
                        R(2)),
                   R(MIN_PADDING),
                   x_stretch, y_stretch)
        \* position.rs:130-137, the x axis is limiting
        x_limiting(scaling_factor, x_stretch, y_stretch) ==
            result(scaling_factor,
                   R(MIN_PADDING),
                   RDiv(RSub(height(gs),
                             RMul(RMul(height(cutout), scaling_factor),
                                  y_stretch)),
                        R(2)),
                   x_stretch, y_stretch)
        limited(usable, ratio_trajectories, ratio_canvas, x_stretch, y_stretch) ==
            IF RLt(ratio_trajectories, ratio_canvas)
            THEN y_limiting(RDiv(height(usable),
                                 RMul(height(cutout), y_stretch)),
                            x_stretch, y_stretch)
            ELSE x_limiting(RDiv(width(usable),
                                 RMul(width(cutout), x_stretch)),
                            x_stretch, y_stretch)
        stretched(usable, x_stretch, y_stretch) ==
            limited(usable,
                    RMul(rect_aspect_ratio(cutout), ar),
                    rect_aspect_ratio(usable),
                    x_stretch, y_stretch)
    IN  IF RGt(ar, R(1))
        THEN stretched(shrink(gs, R(MIN_PADDING)), ar, R(1))
        ELSE stretched(shrink(gs, R(MIN_PADDING)), R(1), RDiv(R(1), ar))

\* Gui and Overlay space without the y flip between them
flip_not(p, gs) == p

\* the y flip between Gui and Overlay space (position.rs:35-38 and 66-69)
flip(p, gs) ==
    Vec(p.x, RAdd(RSub(gs.max.y, p.y), gs.min.y))

\* the conversion to Overlay space without the padding
to_overlay_space_unpadded(position, gs, cutout, ar) ==
    LET canvas_to_overlay(canvas_vec_moved, ps) ==
            VAdd(Vec(RMul(canvas_vec_moved.x, ps.scaling_factor.x),
                     RMul(canvas_vec_moved.y, ps.scaling_factor.y)),
                 gs.min)
    IN  CASE position.tag = "Canvas" ->
               canvas_to_overlay(
                   VSub(position.pos, cutout.min),
                   calculate_padding_and_scaling_factor(gs, cutout, ar))
          [] position.tag = "Overlay" -> position.pos
          [] position.tag = "Gui" -> flip(position.pos, gs)

\* Position::to_overlay_space
to_overlay_space(position, gs, cutout, ar) ==
    LET canvas_to_overlay(canvas_vec_moved, ps) ==
            VAdd(VAdd(Vec(RMul(canvas_vec_moved.x, ps.scaling_factor.x),
                          RMul(canvas_vec_moved.y, ps.scaling_factor.y)),
                      ps.padding),
                 gs.min)
    IN  CASE position.tag = "Canvas" ->
               canvas_to_overlay(
                   VSub(position.pos, cutout.min),
                   calculate_padding_and_scaling_factor(gs, cutout, ar))
          [] position.tag = "Overlay" -> position.pos
          [] position.tag = "Gui" -> flip(position.pos, gs)

\* Position::to_gui_space
to_gui_space(position, gs, cutout, ar) ==
    CASE position.tag = "Canvas" ->
           flip(to_overlay_space(position, gs, cutout, ar), gs)
      [] position.tag = "Overlay" -> flip(position.pos, gs)
      [] position.tag = "Gui" -> position.pos

\* overlay_to_canvas without the origin of the gui space
overlay_to_canvas_no_origin(pos, gs, cutout, ar) ==
    LET scaled(overlay_vec_moved, scaling_factor) ==
            Vec(RDiv(overlay_vec_moved.x, scaling_factor.x),
                RDiv(overlay_vec_moved.y, scaling_factor.y))
        moved(ps) == VAdd(scaled(VSub(pos, ps.padding), ps.scaling_factor),
                          cutout.min)
    IN  moved(calculate_padding_and_scaling_factor(gs, cutout, ar))

\* Position::to_canvas_space, the Overlay arm
overlay_to_canvas(pos, gs, cutout, ar) ==
    LET scaled(overlay_vec_moved, scaling_factor) ==
            Vec(RDiv(overlay_vec_moved.x, scaling_factor.x),
                RDiv(overlay_vec_moved.y, scaling_factor.y))
        moved(ps) == VAdd(scaled(VSub(VSub(pos, ps.padding), gs.min),
                                 ps.scaling_factor),
                          cutout.min)
    IN  moved(calculate_padding_and_scaling_factor(gs, cutout, ar))

\* Position::to_canvas_space
to_canvas_space(position, gs, cutout, ar) ==
    CASE position.tag = "Canvas" -> position.pos
      [] position.tag = "Overlay" ->
           overlay_to_canvas(position.pos, gs, cutout, ar)
      [] position.tag = "Gui" ->
           overlay_to_canvas(to_overlay_space(position, gs, cutout, ar),
                             gs, cutout, ar)

----------------------------------------------------------------------------
(* src/src/utility/coordinate_system.rs: the tick planner *)

MIN_NUMBER_OF_TICKS == 4

Min(a, b) == IF a < b THEN a ELSE b

Absolute(v) == [kind |-> "Absolute", tick |-> v, wanted_num_ticks |-> 0]
Automatic(n) == [kind |-> "Automatic", tick |-> R(0), wanted_num_ticks |-> n]

\* the candidates with the base 3 in place of 5
tick_options_with_three == <<1, 2, 3, 25>>

\* let tick_options = [1, 2, 5, 25]
tick_options == <<1, 2, 5, 25>>

\* u64 is 30 bits wide in the model: u64::MAX is 2^30 - 1 = 1 073 741 823
\* in place of 2^64 - 1 = 18 446 744 073 709 551 615.  Both lie between a
\* power of ten and twice that power.
U64_MAX == 1073741823

\* `as u64` of a f64 that is not negative: the whole part, saturating, and
\* 0 for NaN
as_u64(a) ==
    IF a.d = 0 THEN (IF a.n > 0 THEN U64_MAX ELSE 0)
    ELSE IF a.n \div a.d > U64_MAX THEN U64_MAX
    ELSE a.n \div a.d

\* the product a * b of two u64 is not a u64
overflows(a, b) == a > U64_MAX \div b

\* a * b in a release build: the product modulo U64_MAX + 1
RECURSIVE wrapping_mul(_, _)
wrapping_mul(a, b) ==
    IF b = 0 THEN 0
    ELSE (wrapping_mul(a, b - 1) + a) % (U64_MAX + 1)

\* the difference that stops at 0
abs_diff_saturating(a, b) == IF a < b THEN 0 ELSE a - b

\* u64::abs_diff
abs_diff(a, b) == IF a < b THEN b - a ELSE a - b

\* the test of one candidate without the floor on the number of ticks
candidate_wins_floorless(new_num_ticks, num_ticks_with_best_tick, wanted_num_ticks) ==
    abs_diff(wanted_num_ticks, new_num_ticks)
        < abs_diff(wanted_num_ticks, num_ticks_with_best_tick)

\* the test of one candidate that lets an equal difference win
candidate_wins_on_ties(new_num_ticks, num_ticks_with_best_tick, wanted_num_ticks) ==
    /\ new_num_ticks >= Min(wanted_num_ticks, MIN_NUMBER_OF_TICKS)
    /\ abs_diff(wanted_num_ticks, new_num_ticks)
          <= abs_diff(wanted_num_ticks, num_ticks_with_best_tick)

\* coordinate_system.rs:501-503, the test of one candidate
candidate_wins(new_num_ticks, num_ticks_with_best_tick, wanted_num_ticks) ==
    LET min_num_ticks == Min(wanted_num_ticks, MIN_NUMBER_OF_TICKS)
        best_diff == abs_diff(wanted_num_ticks, num_ticks_with_best_tick)
        new_diff == abs_diff(wanted_num_ticks, new_num_ticks)
    IN  new_num_ticks >= min_num_ticks /\ new_diff < best_diff

\* coordinate_system.rs:498-507, the for loop over the candidates from the
\* i-th on; best is the pair (best_tick, num_ticks_with_best_tick), with
\* the note that a product growing_tick * tick_option has overflowed
RECURSIVE for_tick_options(_, _, _, _, _)
for_tick_options(i, best, rest_draw_space, growing_tick, wanted_num_ticks) ==
    IF i > Len(tick_options) THEN best
    ELSE LET tick_option == tick_options[i]
             new_num_ticks == rest_draw_space \div tick_option
             next_best ==
                 IF candidate_wins(new_num_ticks, best.num_ticks_with_best_tick,
                                   wanted_num_ticks)
                 THEN [best_tick |-> wrapping_mul(growing_tick, tick_option),
                       num_ticks_with_best_tick |-> new_num_ticks,
                       overflowed |-> \/ best.overflowed
                                      \/ overflows(growing_tick, tick_option)]
                 ELSE best
         IN  for_tick_options(i + 1, next_best, rest_draw_space, growing_tick,
                              wanted_num_ticks)

\* The smallest positive f64 stands at 10^-9 in the model: the quotient of
\* a smaller division is 0, as that of an f64 division below 5e-324 is.
F64_MIN_POSITIVE_DENOMINATOR == 1000000000

\* coordinate_system.rs:477, tick_shrink_factor /= 10.0 in f64
shrunk(tick_shrink_factor) ==
    IF tick_shrink_factor.d >= F64_MIN_POSITIVE_DENOMINATOR
    THEN R(0)
    ELSE RDiv(tick_shrink_factor, R(10))

\* no call of get_absolute_tick is going on
NoCall == [pc |-> "none"]

\* Tick::get_absolute_tick(self, draw_space) has been called
Called(self, arg) ==
    [pc |-> "get_absolute_tick", self |-> self, arg |-> arg,
     draw_space |-> R(0), tick_shrink_factor |-> R(1),
     best_tick |-> 0, num_ticks_with_best_tick |-> 0,
     rest_draw_space |-> 0, growing_tick |-> 0, result |-> R(0)]

\* coordinate_system.rs:468-473, the match and the locals of the Automatic arm
EnterGetAbsoluteTick ==
    /\ planner.pc = "get_absolute_tick"
    /\ planner' =
         IF planner.self.kind = "Absolute"
         THEN [planner EXCEPT !.pc = "done", !.result = planner.self.tick]
         ELSE [planner EXCEPT !.pc = "normalise",
                              !.draw_space = RAbs(planner.arg),
                              !.tick_shrink_factor = R(1)]
    /\ UNCHANGED <<canvas_vars, printer, walker>>

\* coordinate_system.rs:475-478, one round of the while loop
Normalise ==
    /\ planner.pc = "normalise"
    /\ RLt(planner.draw_space, R(1000 * planner.self.wanted_num_ticks))
    /\ planner' =
         [planner EXCEPT !.draw_space = RMul(planner.draw_space, R(10)),
                         !.tick_shrink_factor =
                             shrunk(planner.tick_shrink_factor)]
    /\ UNCHANGED <<canvas_vars, printer, walker>>

\* coordinate_system.rs:480 and 487-496, the call of get_best_tick_from_big
EnterGetBestTickFromBig ==
    /\ planner.pc = "normalise"
    /\ ~RLt(planner.draw_space, R(1000 * planner.self.wanted_num_ticks))
    /\ planner' =
         [planner EXCEPT !.pc = "search",
                         !.best_tick = 1,
                         !.num_ticks_with_best_tick = as_u64(planner.draw_space),
                         !.rest_draw_space = as_u64(planner.draw_space),
                         !.growing_tick = 1]
    /\ UNCHANGED <<canvas_vars, printer, walker>>

\* coordinate_system.rs:498-507, the for loop of one round of the search
for_loop(call) ==
    for_tick_options(
        1,
        [best_tick |-> call.best_tick,
         num_ticks_with_best_tick |-> call.num_ticks_with_best_tick,
         overflowed |-> FALSE],
        call.rest_draw_space, call.growing_tick, call.self.wanted_num_ticks)

\* a multiplication of the round overflows: one of the for loop, or
\* growing_tick *= 10 (coordinate_system.rs:504 and 510)
round_overflows(call) ==
    \/ for_loop(call).overflowed
    \/ overflows(call.growing_tick, 10)

\* coordinate_system.rs:497-511, one round of the while loop.  An
\* overflowing multiplication panics in a build with overflow checks and
\* wraps in one without.
Search ==
    /\ planner.pc = "search"
    /\ planner.rest_draw_space # 0
    /\ LET wrapped(best) ==
               [planner EXCEPT
                   !.best_tick = best.best_tick,
                   !.num_ticks_with_best_tick = best.num_ticks_with_best_tick,
                   !.rest_draw_space = planner.rest_draw_space \div 10,
                   !.growing_tick = wrapping_mul(planner.growing_tick, 10)]
       IN  planner' \in
             IF round_overflows(planner)
             THEN {wrapped(for_loop(planner)), [planner EXCEPT !.pc = "panic"]}
             ELSE {wrapped(for_loop(planner))}
    /\ UNCHANGED <<canvas_vars, printer, walker>>

\* coordinate_system.rs:512 and 482, the two returns
ReturnTick ==
    /\ planner.pc = "search"
    /\ planner.rest_draw_space = 0
    /\ planner' =
         [planner EXCEPT !.pc = "done",
                         !.result = RMul(R(planner.best_tick),
                                         planner.tick_shrink_factor)]
    /\ UNCHANGED <<canvas_vars, printer, walker>>

----------------------------------------------------------------------------
(* src/src/utility/coordinate_system.rs: Axis::print_float *)

\* A String is a sequence of its characters.
Digit(k) == <<"0", "1", "2", "3", "4", "5", "6", "7", "8", "9">>[k + 1]

\* the decimal digits of a natural number
RECURSIVE Decimal(_)
Decimal(i) == IF i < 10 THEN <<Digit(i)>>
              ELSE Append(Decimal(i \div 10), Digit(i % 10))

\* the last k decimal digits of a natural number, with leading zeros
RECURSIVE Padded(_, _)
Padded(i, k) == IF k = 0 THEN <<>>
                ELSE Append(Padded(i \div 10, k - 1), Digit(i % 10))

RECURSIVE TenTo(_)
TenTo(k) == IF k = 0 THEN 1 ELSE 10 * TenTo(k - 1)

\* the first digits of the fraction r / d read as a number, and the
\* remainder that is left after them
RECURSIVE fraction(_, _, _)
fraction(r, d, digits) ==
    IF digits = 0 THEN [f |-> 0, r |-> r]
    ELSE LET next(prev) == [f |-> prev.f * 10 + (prev.r * 10) \div d,
                            r |-> (prev.r * 10) % d]
         IN  next(fraction(r, d, digits - 1))

\* format!("{m:.precision$}") of a finite m >= 0 with precision > 0: the
\* exact decimal expansion, rounded to the precision half to even
format_fixed(m, precision) ==
    LET string(int, frac) ==
            Decimal(int) \o <<".">> \o Padded(frac, precision)
        rounded(int, part) ==
            IF \/ 2 * part.r > m.d
               \/ 2 * part.r = m.d /\ part.f % 2 = 1
            THEN IF part.f + 1 = TenTo(precision)
                 THEN string(int + 1, 0)
                 ELSE string(int, part.f + 1)
            ELSE string(int, part.f)
    IN  rounded(m.n \div m.d, fraction(m.n % m.d, m.d, precision))

\* the least k with n * 10^k >= d
RECURSIVE shifts(_, _)
shifts(n, d) == IF n >= d THEN 0 ELSE 1 + shifts(n * 10, d)

\* float.log10().floor() of a finite float > 0
log10_floor(float) ==
    IF float.n >= float.d
    THEN Len(Decimal(float.n \div float.d)) - 1
    ELSE -shifts(float.n, float.d)

\* 10.0_f32.powf(log_10) of a whole log_10
powf10(log_10) == IF log_10 >= 0 THEN R(TenTo(log_10))
                  ELSE Frac(1, TenTo(-log_10))

\* format!("{log_10}") of a whole f32
display_whole(log_10) == IF log_10 < 0 THEN <<"-">> \o Decimal(-log_10)
                         ELSE Decimal(log_10)

\* the range of the scientific notation with an exclusive upper end of the
\* small range
scientific_range_exclusive(float) ==
    \/ RLe(R(10000), float)
    \/ RLe(Frac(1, 1000000), float) /\ RLt(float, Frac(1, 10000))

\* coordinate_system.rs:280, float >= 10_000.0 ||
\* (0.000001..=0.0001).contains(&float)
scientific_range(float) ==
    \/ RLe(R(10000), float)
    \/ RLe(Frac(1, 1000000), float) /\ RLe(float, Frac(1, 10000))

\* coordinate_system.rs:281-283
scientific(sign, float) ==
    LET string(log_10) ==
            sign \o format_fixed(RDiv(float, powf10(log_10)), 2)
                 \o <<"e">> \o display_whole(log_10)
    IN  string(log10_floor(float))

\* chars().take(k) that takes everything
take_all(string, k) == string

\* chars().take(k).collect()
take(string, k) ==
    SubSeq(string, 1, IF Len(string) < k THEN Len(string) ELSE k)

RECURSIVE trim_end_matches(_, _)
trim_end_matches(string, c) ==
    IF string # <<>> /\ string[Len(string)] = c
    THEN trim_end_matches(SubSeq(string, 1, Len(string) - 1), c)
    ELSE string

\* coordinate_system.rs:286-288
fixed(sign, float) ==
    trim_end_matches(take(sign \o format_fixed(float, 6), 5), ".")

\* no call of print_float is going on
NoPrint == [pc |-> "none"]

\* Axis::print_float(float) has been called
Printing(arg) ==
    [pc |-> "print_float", arg |-> arg, sign |-> <<>>, float |-> R(0),
     form |-> "none", text |-> <<>>]

\* the arm of the if that print_float takes for the absolute value float
arm(float) == IF scientific_range(float) THEN "scientific"
              ELSE IF RLt(float, Frac(1, 1000000)) THEN "zero"
              ELSE "fixed"

\* coordinate_system.rs:278-280, 284 and 285: the sign, the absolute value
\* and the conditions of the if
EnterPrintFloat ==
    /\ printer.pc = "print_float"
    /\ printer' =
         [printer EXCEPT !.pc = arm(RAbs(printer.arg)),
                         !.form = arm(RAbs(printer.arg)),
                         !.sign = IF RLt(printer.arg, R(0)) THEN <<"-">>
                                  ELSE <<>>,
                         !.float = RAbs(printer.arg)]
    /\ UNCHANGED <<canvas_vars, planner, walker>>

\* coordinate_system.rs:281-283
FormatScientific ==
    /\ printer.pc = "scientific"
    /\ printer' = [printer EXCEPT !.pc = "done",
                                  !.text = scientific(printer.sign,
                                                      printer.float)]
    /\ UNCHANGED <<canvas_vars, planner, walker>>

\* coordinate_system.rs:285
FormatZero ==
    /\ printer.pc = "zero"
    /\ printer' = [printer EXCEPT !.pc = "done", !.text = <<"0">>]
    /\ UNCHANGED <<canvas_vars, planner, walker>>

\* coordinate_system.rs:287-289
FormatFixed ==
    /\ printer.pc = "fixed"
    /\ printer' = [printer EXCEPT !.pc = "done",
                                  !.text = fixed(printer.sign, printer.float)]
    /\ UNCHANGED <<canvas_vars, planner, walker>>

----------------------------------------------------------------------------
(* src/src/utility/coordinate_system.rs: Axis::draw_mayor_ticks *)

\* f32::ceil
ceil(a) == IF a.d = 0 THEN a ELSE R(-((-a.n) \div a.d))

\* rounding towards minus infinity in the place of f32::trunc
trunc_down(a) == IF a.d = 0 THEN a ELSE R(a.n \div a.d)

\* f32::trunc, rounding towards zero
trunc(a) == IF a.d = 0 THEN a
            ELSE IF a.n >= 0 THEN R(a.n \div a.d)
            ELSE R(-((-a.n) \div a.d))

\* the coordinate of a point along an axis of the kind
on_axis(kind, v) == IF kind = "X" THEN v.x ELSE v.y

\* coordinate_system.rs:184-189 and 203-208, the first tick at or after
\* the start of the axis line
first_tick(start, mayor_tick_interval) ==
    LET first(ticks_out_of_bounds) ==
            IF RGt(ticks_out_of_bounds, R(0))
            THEN RMul(ceil(ticks_out_of_bounds), mayor_tick_interval)
            ELSE RMul(trunc(ticks_out_of_bounds), mayor_tick_interval)
    IN  first(RDiv(start, mayor_tick_interval))

\* coordinate_system.rs:192-195 and 211-214, the position of a tick: it
\* lies on the line through the start of the axis line
tick_pos(kind, tick, start_on_canvas) ==
    IF kind = "X"
    THEN Canvas(Vec(tick, start_on_canvas.y))
    ELSE Canvas(Vec(start_on_canvas.x, tick))

NoWalk == [pc |-> "none"]

\* the frame of a call of draw_mayor_ticks before its first statement; the
\* ticks drawn are the positions handed to draw_mayor_tick, in order
Walking(axis_line, mayor_tick_interval, kind) ==
    [pc |-> "draw_mayor_ticks", axis_line |-> axis_line,
     mayor_tick_interval |-> mayor_tick_interval, kind |-> kind,
     start_on_canvas |-> Vec(R(0), R(0)), end_on_canvas |-> Vec(R(0), R(0)),
     tick |-> R(0), drawn |-> <<>>]

\* coordinate_system.rs:177-190 and 202-209: the ends of the axis line in
\* Canvas space and the first tick
EnterDrawMayorTicks ==
    /\ walker.pc = "draw_mayor_ticks"
    /\ \E start \in {to_canvas_space(walker.axis_line[1], gui_space,
                                      current_cutout, aspect_ratio)} :
          walker' = [walker EXCEPT
              !.pc = "while",
              !.start_on_canvas = start,
              !.end_on_canvas = to_canvas_space(walker.axis_line[2], gui_space,
                                                current_cutout, aspect_ratio),
              !.tick = first_tick(on_axis(walker.kind, start),
                                  walker.mayor_tick_interval)]
    /\ UNCHANGED <<canvas_vars, planner, printer>>

\* coordinate_system.rs:191-198 and 210-217, one round of the loop
DrawMayorTick ==
    /\ walker.pc = "while"
    /\ RLe(walker.tick, on_axis(walker.kind, walker.end_on_canvas))
    /\ walker' = [walker EXCEPT
           !.drawn = Append(@, tick_pos(walker.kind, walker.tick,
                                        walker.start_on_canvas)),
           !.tick = RAdd(@, walker.mayor_tick_interval)]
    /\ UNCHANGED <<canvas_vars, planner, printer>>

\* coordinate_system.rs:191 and 210, the loop ends
ReturnFromDrawMayorTicks ==
    /\ walker.pc = "while"
    /\ ~RLe(walker.tick, on_axis(walker.kind, walker.end_on_canvas))
    /\ walker' = [walker EXCEPT !.pc = "done"]
    /\ UNCHANGED <<canvas_vars, planner, printer>>

----------------------------------------------------------------------------
(* src/src/utility/coordinate_system.rs: the base line of an axis *)

DEFAULT_PADDING == 60

LeftOrBottom(padding) == [tag |-> "LeftOrBottom", padding |-> padding]
RightOrTop(padding) == [tag |-> "RightOrTop", padding |-> padding]
Center == [tag |-> "Center", padding |-> R(0)]

\* simple_math::Rectangle::new: the rectangle spanned by two corners, with
\* bottom and left at its min corner (Overlay and Canvas space have y up)
Rectangle(a, b) ==
    Rect(Vec(IF RLt(b.x, a.x) THEN b.x ELSE a.x,
             IF RLt(b.y, a.y) THEN b.y ELSE a.y),
         Vec(IF RLt(b.x, a.x) THEN a.x ELSE b.x,
             IF RLt(b.y, a.y) THEN a.y ELSE b.y))

\* CanvasHandle::bounding_box (canvas_handle.rs:52-55) for the clip
\* rectangle of the painter
bounding_box(clip_rect) == Rectangle(clip_rect.max, clip_rect.min)

\* Axis::get_base_line_points_for_overlay_placement
get_base_line_points_for_overlay_placement(box, alignment, kind) ==
    LET along(level) ==
            IF kind = "X"
            THEN <<Overlay(Vec(box.min.x, level)), Overlay(Vec(box.max.x, level))>>
            ELSE <<Overlay(Vec(level, box.min.y)), Overlay(Vec(level, box.max.y))>>
        aligned(lo, hi) ==
            CASE alignment.tag = "LeftOrBottom" ->
                   along(RAdd(lo, alignment.padding))
              [] alignment.tag = "RightOrTop" ->
                   along(RSub(hi, alignment.padding))
              [] alignment.tag = "Center" ->
                   along(RDiv(RAdd(lo, hi), R(2)))
    IN  IF kind = "X" THEN aligned(box.min.y, box.max.y)
        ELSE aligned(box.min.x, box.max.x)

\* the inner box that is the bounding box itself
inner_box_unshrunk(box) == box

\* coordinate_system.rs:364, bounding_box.shrink(DEFAULT_PADDING)
inner_box(box) == shrink(box, R(DEFAULT_PADDING))

\* Axis::get_base_line_points_for_canvas_placement, with the fields of the
\* handle
get_base_line_points_for_canvas_placement(gs, cutout, ar, box, axis_section, kind) ==
    LET canvas(p) == to_canvas_space(Overlay(p), gs, cutout, ar)
        placed(inner_lo, inner_hi, on_canvas) ==
            IF RGt(inner_lo, axis_section)
            THEN get_base_line_points_for_overlay_placement(
                     box, LeftOrBottom(R(DEFAULT_PADDING)), kind)
            ELSE IF RLt(inner_hi, axis_section)
            THEN get_base_line_points_for_overlay_placement(
                     box, RightOrTop(R(DEFAULT_PADDING)), kind)
            ELSE on_canvas
        corners(left_bottom, right_top, inner_left_bottom, inner_right_top) ==
            IF kind = "Y"
            THEN placed(inner_left_bottom.x, inner_right_top.x,
                        <<Canvas(Vec(axis_section, left_bottom.y)),
                          Canvas(Vec(axis_section, right_top.y))>>)
            ELSE placed(inner_left_bottom.y, inner_right_top.y,
                        <<Canvas(Vec(left_bottom.x, axis_section)),
                          Canvas(Vec(right_top.x, axis_section))>>)
    IN  corners(canvas(box.min), canvas(box.max),
                canvas(inner_box(box).min), canvas(inner_box(box).max))

----------------------------------------------------------------------------
(* src/src/drawable.rs: what Drawable::get_cutout returns *)

Pt(x, y) == Vec(R(x), R(y))

\* impl Drawable for (): the dummy value
unit_cutout == Rect(Pt(0, 0), Pt(10, 10))

\* The drawables handed to Canvas::new, each given by the bounding
\* rectangle its get_cutout returns: the unit drawable and a user
\* drawable that is not square and lies off the origin.
Drawables == { unit_cutout, Rect(Pt(-20, 5), Pt(20, 25)) }

get_cutout(d) == d

----------------------------------------------------------------------------
(* The host's per-frame input (egui Response and InputState) *)

None == [some |-> FALSE, pos |-> Pt(0, 0)]
Some(p) == [some |-> TRUE, pos |-> p]

\* Widget::ui allocates at least 50 x 50 (lib.rs:223)
GuiSpaces == { Rect(Pt(0, 0), Pt(50, 50)),
               Rect(Pt(10, 20), Pt(110, 70)) }

\* no pointer, a pointer inside both rectangles, a pointer that hovers
\* just outside both of them
HoverPositions == { None, Some(Pt(25, 30)), Some(Pt(120, 75)) }

\* scroll_delta.y: nothing, the edge of the dead zone, one notch each way
ScrollDeltas == { R(0), R(1), R(50), R(-50) }

DragDeltas == { Pt(0, 0), Pt(4, -2) }

AspectRatios == { R(1), R(2), Frac(1, 2) }

Inputs == [ hover_pos : HoverPositions,
            key_space : BOOLEAN,
            scroll_delta_y : ScrollDeltas,
            drag_started : BOOLEAN,
            drag_released : BOOLEAN,
            drag_delta : DragDeltas ]

----------------------------------------------------------------------------
(* src/src/lib.rs *)

\* lib.rs:138, the dead zone of the scroll wheel
scroll_accepted(scroll_delta_y) == RGt(RAbs(scroll_delta_y), R(1))

\* a zoom factor that is linear in the scroll: 0.9 for one notch up, 1.1
\* for one notch down
zoom_factor_linear(scroll_delta_y) ==
    RSub(R(1), RDiv(scroll_delta_y, R(500)))

\* the zoom factor with the sign of the exponent reversed
zoom_factor_reversed(scroll_delta_y) ==
    LET power(notches) ==
            IF notches.d = 1 THEN RPow(Frac(9, 10), -notches.n) ELSE NaN
    IN  power(RDiv(scroll_delta_y, R(50)))

\* lib.rs:154, 0.9_f32.powf(scroll_delta.y / 50.0); the model's accepted
\* scroll deltas are whole notches, so that the power is rational
zoom_factor(scroll_delta_y) ==
    LET power(notches) ==
            IF notches.d = 1 THEN RPow(Frac(9, 10), notches.n) ELSE NaN
    IN  power(RDiv(scroll_delta_y, R(50)))

\* zoomed_cutout with the two weights of the offset exchanged
zoomed_cutout_swapped(cutout, fix_point, zf) ==
    LET inverse_zoom_factor == RSub(R(1), zf)
        offset == VAdd(VScale(fix_point, zf),
                       VScale(cutout.min, inverse_zoom_factor))
    IN  from_min_size(offset, VScale(size(cutout), zf))

\* lib.rs:155-164, the cutout zoomed by zf around fix_point
zoomed_cutout(cutout, fix_point, zf) ==
    LET inverse_zoom_factor == RSub(R(1), zf)
        offset == VAdd(VScale(fix_point, inverse_zoom_factor),
                       VScale(cutout.min, zf))
    IN  from_min_size(offset, VScale(size(cutout), zf))

\* the zoom guard without the test that there is a pointer
zoom_guard_no_hover(inp) == scroll_accepted(inp.scroll_delta_y)

\* lib.rs:138-139, the conditions under which the scroll zooms
zoom_guard(inp) == scroll_accepted(inp.scroll_delta_y) /\ inp.hover_pos.some

\* lib.rs:137-168, the zooming block of the Normal arm
zooming(cutout, gs, ar, inp) ==
    IF zoom_guard(inp)
    THEN LET fix_point == to_canvas_space(Gui(inp.hover_pos.pos), gs, cutout, ar)
         IN  zoomed_cutout(cutout, fix_point, zoom_factor(inp.scroll_delta_y))
    ELSE cutout

\* the reset block ignoring the key
reseting_never(cutout, d, inp) == cutout

\* the reset block moving the cutout half of the way to the drawable's
\* rectangle
reseting_halfway(cutout, d, inp) ==
    IF inp.key_space
    THEN Rect(VScale(VAdd(cutout.min, get_cutout(d).min), Frac(1, 2)),
              VScale(VAdd(cutout.max, get_cutout(d).max), Frac(1, 2)))
    ELSE cutout

\* lib.rs:132-135, the reset block of the Normal arm
reseting(cutout, d, inp) ==
    IF inp.key_space THEN get_cutout(d) ELSE cutout

\* drag detection without the test that the pointer is inside the widget
drag_detected_anywhere(gs, inp) == inp.drag_started /\ inp.hover_pos.some

\* drag detection without the test that there is a pointer
drag_detected_no_hover(gs, inp) ==
    inp.drag_started /\ contains(gs, inp.hover_pos.pos)

\* lib.rs:170-178, drag detection
drag_detected(gs, inp) ==
    /\ inp.drag_started
    /\ inp.hover_pos.some
    /\ contains(gs, inp.hover_pos.pos)

\* the drag translation with both components negated
dragged_cutout_y_negated(cutout, gs, ar, inp) ==
    LET translation_scaled(translation_raw, scaling_factor) ==
            Vec(RDiv(translation_raw.x, scaling_factor.x),
                RDiv(translation_raw.y, scaling_factor.y))
        translation_rotated(scaled) == Vec(RNeg(scaled.x), RNeg(scaled.y))
        translated(ps) ==
            translate(cutout,
                      translation_rotated(
                          translation_scaled(inp.drag_delta, ps.scaling_factor)))
    IN  translated(calculate_padding_and_scaling_factor(gs, cutout, ar))

\* lib.rs:186-201, the cutout translated by the drag delta
dragged_cutout(cutout, gs, ar, inp) ==
    LET translation_scaled(translation_raw, scaling_factor) ==
            Vec(RDiv(translation_raw.x, scaling_factor.x),
                RDiv(translation_raw.y, scaling_factor.y))
        translation_rotated(scaled) == Vec(RNeg(scaled.x), scaled.y)
        translated(ps) ==
            translate(cutout,
                      translation_rotated(
                          translation_scaled(inp.drag_delta, ps.scaling_factor)))
    IN  translated(calculate_padding_and_scaling_factor(gs, cutout, ar))

\* Canvas::manage_user_input, the mode after the frame (lib.rs:130-204)
mode_after(m, gs, inp) ==
    IF m = "Normal"
    THEN IF drag_detected(gs, inp) THEN "Dragging" ELSE "Normal"
    ELSE IF inp.drag_released THEN "Normal" ELSE "Dragging"

\* the cutout after a frame whose Normal arm applies the drag delta as soon
\* as it has detected the drag
cutout_after_panning_at_start(cutout, m, gs, ar, d, inp) ==
    IF m = "Normal"
    THEN IF drag_detected(gs, inp)
         THEN dragged_cutout(zooming(reseting(cutout, d, inp), gs, ar, inp),
                             gs, ar, inp)
         ELSE zooming(reseting(cutout, d, inp), gs, ar, inp)
    ELSE IF inp.drag_released
         THEN cutout
         ELSE dragged_cutout(cutout, gs, ar, inp)

\* Canvas::manage_user_input, the cutout after the frame (lib.rs:130-204)
cutout_after(cutout, m, gs, ar, d, inp) ==
    IF m = "Normal"
    THEN zooming(reseting(cutout, d, inp), gs, ar, inp)
    ELSE IF inp.drag_released
         THEN cutout
         ELSE dragged_cutout(cutout, gs, ar, inp)

\* Canvas::manage_user_input: the state after the frame
manage_user_input(cutout, m, gs, ar, d, inp) ==
    [current_cutout |-> cutout_after(cutout, m, gs, ar, d, inp),
     mode |-> mode_after(m, gs, inp)]

\* the handle of the draw call built after the input has been handled
draw_handle_after_input(cutout, after) == after

\* lib.rs:227-235, the cutout of the CanvasHandle that Widget::ui passes to
\* Drawable::draw: cutout is self.state.current_cutout when ui is entered,
\* after is what manage_user_input leaves in it (lib.rs:238)
draw_handle(cutout, after) == cutout

\* Widget::ui (lib.rs:222-247): what the frame draws with, and the state
\* the frame leaves
ui(cutout, m, gs, ar, d, inp) ==
    LET frame(after) ==
            [drawn |-> draw_handle(cutout, after.current_cutout),
             state |-> after]
    IN  frame(manage_user_input(cutout, m, gs, ar, d, inp))

\* the frame zooms: the Normal arm runs and the scroll is taken
zooms_now(m, inp) == m = "Normal" /\ zoom_guard(inp)

\* CanvasState::new, with the drawable and the layout of the host
Init ==
    /\ current_cutout = unit_cutout
    /\ mode = "Normal"
    /\ aspect_ratio = R(1)
    /\ drawable \in Drawables
    /\ gui_space \in GuiSpaces
    /\ frames = 0
    /\ zooms = 0
    /\ ratio_set = FALSE
    /\ planner = NoCall
    /\ printer = NoPrint
    /\ walker = NoWalk

\* The inputs each arm of the match reads: the Normal arm never reads the
\* drag release or the drag delta, the Dragging arm reads nothing else.
NormalInputs == { inp \in Inputs : ~inp.drag_released /\ inp.drag_delta = Pt(0, 0) }

DraggingInputs == { inp \in Inputs : /\ inp.hover_pos = None
                                     /\ ~inp.key_space
                                     /\ inp.scroll_delta_y = R(0)
                                     /\ ~inp.drag_started }

\* the state after a frame with input inp
AfterFrame(inp) ==
    /\ frames < MaxFrames
    /\ zooms >= MaxZooms => ~zooms_now(mode, inp)
    /\ \E frame \in {ui(current_cutout, mode, gui_space, aspect_ratio,
                          drawable, inp)} :
          /\ current_cutout' = frame.state.current_cutout
          /\ mode' = frame.state.mode
    /\ zooms' = IF zooms_now(mode, inp) THEN zooms + 1 ELSE zooms
    /\ frames' = frames + 1
    /\ UNCHANGED <<aspect_ratio, drawable, gui_space, ratio_set, planner,
                   printer, walker>>

\* Widget::ui, a frame that starts in mode Normal (lib.rs:131-179)
FrameNormal ==
    /\ mode = "Normal"
    /\ \E inp \in NormalInputs : AfterFrame(inp)

\* Widget::ui, a frame that starts in mode Dragging (lib.rs:181-203)
FrameDragging ==
    /\ mode = "Dragging"
    /\ \E inp \in DraggingInputs : AfterFrame(inp)

\* CanvasState::set_aspect_ratio: the host configures the aspect ratio once,
\* before any frame or between two frames
SetAspectRatio ==
    /\ ~ratio_set
    /\ \E a \in AspectRatios : a # aspect_ratio /\ aspect_ratio' = a
    /\ ratio_set' = TRUE
    /\ UNCHANGED <<current_cutout, mode, drawable, gui_space, frames, zooms,
                   planner, printer, walker>>

Next == FrameNormal \/ FrameDragging \/ SetAspectRatio

Spec == Init /\ [][Next]_vars

----------------------------------------------------------------------------
(* The canvas with drawables and aspect ratios of any geometry *)

\* egui's Rect::NOTHING, which CoordinateSystem::get_cutout returns
\* (coordinate_system.rs:107-110): min = (+inf, +inf), max = (-inf, -inf)
NOTHING == Rect(Vec(Infinite(1), Infinite(1)), Vec(Infinite(-1), Infinite(-1)))

\* the drawables above, a drawable that holds a single point, one that holds
\* a vertical segment, and a CoordinateSystem alone
AnyDrawables ==
    Drawables \cup { Rect(Pt(5, 5), Pt(5, 5)), Rect(Pt(0, 0), Pt(0, 10)), NOTHING }

\* set_aspect_ratio takes any f32
AnyAspectRatios == AspectRatios \cup { R(0), R(-1) }

InitAny ==
    /\ current_cutout = unit_cutout
    /\ mode = "Normal"
    /\ aspect_ratio = R(1)
    /\ drawable \in AnyDrawables
    /\ gui_space \in GuiSpaces
    /\ frames = 0
    /\ zooms = 0
    /\ ratio_set = FALSE
    /\ planner = NoCall
    /\ printer = NoPrint
    /\ walker = NoWalk

\* CanvasState::set_aspect_ratio with any value
SetAnyAspectRatio ==
    /\ ~ratio_set
    /\ \E a \in AnyAspectRatios : a # aspect_ratio /\ aspect_ratio' = a
    /\ ratio_set' = TRUE
    /\ UNCHANGED <<current_cutout, mode, drawable, gui_space, frames, zooms,
                   planner, printer, walker>>

NextAny == FrameNormal \/ FrameDragging \/ SetAnyAspectRatio

SpecAny == InitAny /\ [][NextAny]_vars

----------------------------------------------------------------------------
(* The canvas in a large window *)

\* the rectangle a host with a large window allocates to the widget
LargeGuiSpaces == { Rect(Pt(0, 0), Pt(1000, 500)) }

\* a drawable with the bounding rectangle [(0,0),(100,100)]
LargeDrawables == { Rect(Pt(0, 0), Pt(100, 100)) }

InitLarge ==
    /\ current_cutout = unit_cutout
    /\ mode = "Normal"
    /\ aspect_ratio = R(1)
    /\ drawable \in LargeDrawables
    /\ gui_space \in LargeGuiSpaces
    /\ frames = 0
    /\ zooms = 0
    /\ ratio_set = FALSE
    /\ planner = NoCall
    /\ printer = NoPrint
    /\ walker = NoWalk

SpecLarge == InitLarge /\ [][Next]_vars

----------------------------------------------------------------------------
(* The canvas in a square window *)

\* a square rectangle off the origin of the window: with square cutouts
\* the aspect ratio alone decides which axis limits the fit
SquareGuiSpaces == { Rect(Pt(10, 20), Pt(310, 320)) }

InitSquare ==
    /\ current_cutout = unit_cutout
    /\ mode = "Normal"
    /\ aspect_ratio = R(1)
    /\ drawable \in LargeDrawables
    /\ gui_space \in SquareGuiSpaces
    /\ frames = 0
    /\ zooms = 0
    /\ ratio_set = FALSE
    /\ planner = NoCall
    /\ printer = NoPrint
    /\ walker = NoWalk

SpecSquare == InitSquare /\ [][Next]_vars

----------------------------------------------------------------------------
(* The canvas under every report of the host *)

\* Widget::ui, a frame with any combination of the fields of the egui
\* Response: a drag release or a drag delta in a frame that starts in mode
\* Normal, a scroll or a key in one that starts in mode Dragging
HostFrame == \E inp \in Inputs : AfterFrame(inp)

NextHost == HostFrame \/ SetAspectRatio

SpecHost == InitSquare /\ [][NextHost]_vars

----------------------------------------------------------------------------
(* The tick planner on its own *)

\* the desired numbers of ticks of Tick::Automatic
WantedNumTicks == { 0, 1, 2, 3, 4, 5, 10, 255 }

\* the widths and heights of the draw region handed to get_absolute_tick
DrawSpaces == { Frac(1, 1000), Frac(3, 100), Frac(1, 3), R(1), Frac(7, 2),
                R(10), R(99), R(1234), R(40000) }

Ticks == { Automatic(n) : n \in WantedNumTicks } \cup { Absolute(Frac(3, 2)) }

\* the ticks for which a call with the draw space 0 returns: with a desired
\* number n >= 1 the loop of coordinate_system.rs:475-478 multiplies 0 by
\* 10 for ever
EndingOnNoSpace == { self \in Ticks : self.wanted_num_ticks = 0 }

\* a call of get_absolute_tick on a freshly constructed canvas; the draw
\* space is the extent of a region, or its negative (the planner takes abs)
TickInit ==
    /\ current_cutout = unit_cutout
    /\ mode = "Normal"
    /\ aspect_ratio = R(1)
    /\ drawable = unit_cutout
    /\ gui_space = Rect(Pt(0, 0), Pt(50, 50))
    /\ frames = 0
    /\ zooms = 0
    /\ ratio_set = FALSE
    /\ \/ \E self \in Ticks, space \in DrawSpaces :
             planner \in { Called(self, space), Called(self, RNeg(space)) }
       \/ planner \in { Called(self, R(0)) : self \in EndingOnNoSpace }
    /\ printer = NoPrint
    /\ walker = NoWalk

TickNext ==
    \/ EnterGetAbsoluteTick
    \/ Normalise
    \/ EnterGetBestTickFromBig
    \/ Search
    \/ ReturnTick

SpecTick == TickInit /\ [][TickNext]_vars

\* a call of get_absolute_tick with any tick and any draw space >= 0, the
\* draw space 0 included
TickLiveInit ==
    /\ current_cutout = unit_cutout
    /\ mode = "Normal"
    /\ aspect_ratio = R(1)
    /\ drawable = unit_cutout
    /\ gui_space = Rect(Pt(0, 0), Pt(50, 50))
    /\ frames = 0
    /\ zooms = 0
    /\ ratio_set = FALSE
    /\ \E self \in Ticks, space \in DrawSpaces \cup {R(0)} :
          planner = Called(self, space)
    /\ printer = NoPrint
    /\ walker = NoWalk

\* the draw spaces of a region that has been zoomed out far, or that has
\* no extent to measure (Rect::NOTHING): spans of as many digits as
\* u64::MAX, one digit less, and beyond it
BigDrawSpaces == { R(999999999), R(1000000000), R(U64_MAX), R(2000000000),
                   Infinite(1) }

\* a call of get_absolute_tick for a region of a large extent, or of an
\* everyday one
TickBigInit ==
    /\ current_cutout = unit_cutout
    /\ mode = "Normal"
    /\ aspect_ratio = R(1)
    /\ drawable = unit_cutout
    /\ gui_space = Rect(Pt(0, 0), Pt(50, 50))
    /\ frames = 0
    /\ zooms = 0
    /\ ratio_set = FALSE
    /\ \E self \in Ticks, space \in BigDrawSpaces \cup {R(1), R(1234)} :
          planner = Called(self, space)
    /\ printer = NoPrint
    /\ walker = NoWalk

SpecTickBig == TickBigInit /\ [][TickNext]_vars

\* the call runs on its own thread of control: a statement that can be
\* executed is executed
SpecTickLive == TickLiveInit /\ [][TickNext]_vars /\ WF_vars(TickNext)

----------------------------------------------------------------------------
(* The label printer on its own *)

\* the magnitudes of the canvas coordinates that print_float is handed
LabelFloats ==
    { R(0), Frac(1, 2000000), Frac(1, 1000000), Frac(5, 100000),
      Frac(99, 1000000), Frac(1, 10000), Frac(101, 1000000), Frac(1, 1000),
      Frac(1, 8), Frac(1, 2), R(1), Frac(314159, 100000), Frac(25, 2),
      Frac(1999, 2), R(1234), Frac(2469, 2), R(9999), Frac(19999, 2),
      R(10000), R(12345), R(99999), R(999950), R(40000), Frac(7, 100),
      Frac(123456, 1000) }

\* a call of print_float on a freshly constructed canvas
LabelInit ==
    /\ current_cutout = unit_cutout
    /\ mode = "Normal"
    /\ aspect_ratio = R(1)
    /\ drawable = unit_cutout
    /\ gui_space = Rect(Pt(0, 0), Pt(50, 50))
    /\ frames = 0
    /\ zooms = 0
    /\ ratio_set = FALSE
    /\ planner = NoCall
    /\ \E float \in LabelFloats :
          printer \in { Printing(float), Printing(RNeg(float)) }
    /\ walker = NoWalk

LabelNext ==
    \/ EnterPrintFloat
    \/ FormatScientific
    \/ FormatZero
    \/ FormatFixed

SpecLabel == LabelInit /\ [][LabelNext]_vars

----------------------------------------------------------------------------
(* The tick walk on its own *)

\* the spacings of the major ticks: positive, as the planner returns them
\* for a region with an extent
TickIntervals == { R(1), R(2), R(25), Frac(1, 4), Frac(5, 2) }

\* the ends of an axis line along its axis, in Canvas space, start <= end
AxisEnds ==
    { <<R(0), R(10)>>, <<R(-7), R(3)>>, <<Frac(-15, 2), Frac(-1, 2)>>,
      <<Frac(1, 2), Frac(19, 2)>>, <<R(-5), R(5)>>, <<Frac(-1, 3), Frac(1, 3)>>,
      <<R(3), R(3)>>, <<Frac(7, 2), Frac(7, 2)>>, <<R(-50), R(75)>>,
      <<Frac(-9, 4), Frac(9, 4)>> }

\* the axis lines: through a coordinate across the axis, as Canvas positions
AxisLines ==
    { <<Canvas(IF kind = "X" THEN Vec(ends[1], across) ELSE Vec(across, ends[1])),
        Canvas(IF kind = "X" THEN Vec(ends[2], across) ELSE Vec(across, ends[2])),
        kind>> :
          ends \in AxisEnds, across \in {R(0), R(4)}, kind \in {"X", "Y"} }

\* the axis lines of an overlay placement: the ends of the widget, as
\* Overlay positions
OverlayAxisLines ==
    { <<Overlay(Pt(0, 10)), Overlay(Pt(50, 10)), "X">>,
      <<Overlay(Pt(10, 0)), Overlay(Pt(10, 50)), "Y">> }

\* a call of draw_mayor_ticks on a freshly constructed canvas; the ticks
\* are few enough to be walked
WalkInit ==
    /\ current_cutout = unit_cutout
    /\ mode = "Normal"
    /\ aspect_ratio = R(1)
    /\ drawable = unit_cutout
    /\ gui_space = Rect(Pt(0, 0), Pt(50, 50))
    /\ frames = 0
    /\ zooms = 0
    /\ ratio_set = FALSE
    /\ planner = NoCall
    /\ printer = NoPrint
    /\ \E line \in AxisLines \cup OverlayAxisLines, interval \in TickIntervals :
          /\ line[1].tag = "Canvas" =>
                 RLe(RSub(on_axis(line[3], line[2].pos),
                          on_axis(line[3], line[1].pos)),
                     RMul(R(MaxTicks), interval))
          /\ walker = Walking(<<line[1], line[2]>>, interval, line[3])

WalkNext ==
    \/ EnterDrawMayorTicks
    \/ DrawMayorTick
    \/ ReturnFromDrawMayorTicks

SpecWalk == WalkInit /\ [][WalkNext]_vars

----------------------------------------------------------------------------
(* Properties of the viewport controller *)

\* the cutout and the mode the current state has after a frame with input inp
CutoutAfter(inp) ==
    cutout_after(current_cutout, mode, gui_space, aspect_ratio, drawable, inp)

ModeAfter(inp) == mode_after(mode, gui_space, inp)

\* the scroll of inp is outside the dead zone
OutsideDeadZone(inp) ==
    \/ inp.scroll_delta_y.n > inp.scroll_delta_y.d
    \/ -inp.scroll_delta_y.n > inp.scroll_delta_y.d

\* the cutout the zoom of a Normal frame starts from: the reset of the same
\* frame, if there is one, has been applied before (lib.rs:133-135)
CutoutBeforeScroll(inp) ==
    IF inp.key_space THEN get_cutout(drawable) ELSE current_cutout

\* the Logical position of the pointer of inp under cutout
HoverInCanvas(inp, cutout) ==
    to_canvas_space(Gui(inp.hover_pos.pos), gui_space, cutout, aspect_ratio)

\* the inputs of the frames the model takes from the current state
FrameInputs ==
    { inp \in IF mode = "Normal" THEN NormalInputs ELSE DraggingInputs :
          /\ frames < MaxFrames
          /\ zooms >= MaxZooms => ~zooms_now(mode, inp) }

\* C1: zoom fixed point.  In every frame that starts in mode Normal with a
\* hover position and a scroll outside the dead zone, the hover position
\* converted to Logical space with the cutout before the scroll and with the
\* cutout after the scroll is the same point.
C1_ZoomFixedPoint ==
    mode = "Normal" =>
        \A inp \in FrameInputs :
            inp.hover_pos.some /\ OutsideDeadZone(inp) =>
                \A after \in {CutoutAfter(inp)} :
                    \A fix_point \in {HoverInCanvas(inp, after)} :
                        /\ IsFinite(fix_point.x) /\ IsFinite(fix_point.y)
                        /\ HoverInCanvas(inp, CutoutBeforeScroll(inp)) = fix_point

\* a zoom has been applied and another one can follow
C1_witness ==
    /\ zooms > 0
    /\ mode = "Normal"
    /\ size(current_cutout) # size(unit_cutout)
    /\ size(current_cutout) # size(get_cutout(drawable))

\* a rectangle with positive finite extents
PositiveExtents(r) == RGt(width(r), R(0)) /\ RGt(height(r), R(0))

\* the conversions are affine in each coordinate: two points that differ in
\* both coordinates decide them
ProbePoints == { Pt(3, -7), Vec(Frac(25, 2), R(40)) }

\* C2: round trip.  For the device rectangle, the cutout and the aspect
\* ratio of every reachable state (all with positive extents), a Logical
\* point converted to Device space and back is the same point, and a Device
\* point converted to Logical space and back is the same point.
C2_RoundTrip ==
    /\ PositiveExtents(gui_space)
    /\ PositiveExtents(current_cutout)
    /\ RGt(aspect_ratio, R(0))
    /\ \A p \in ProbePoints :
         /\ \A device \in {to_gui_space(Canvas(p), gui_space, current_cutout,
                                        aspect_ratio)} :
                to_canvas_space(Gui(device), gui_space, current_cutout,
                                aspect_ratio) = p
         /\ \A logical \in {to_canvas_space(Gui(p), gui_space, current_cutout,
                                            aspect_ratio)} :
                to_gui_space(Canvas(logical), gui_space, current_cutout,
                             aspect_ratio) = p

\* a zoomed and panned cutout under a device rectangle off the origin and an
\* aspect ratio other than 1
C2_witness ==
    /\ zooms > 0
    /\ mode = "Dragging"
    /\ aspect_ratio = Frac(1, 2)
    /\ gui_space.min = Pt(10, 20)
    /\ current_cutout.min.x.d # 1

ScalingFactor(cutout) ==
    calculate_padding_and_scaling_factor(gui_space, cutout, aspect_ratio).scaling_factor

\* C3: pan preserves scale.  Every frame processed in mode Dragging that
\* applies a drag delta leaves the size of the cutout and the 2-D scaling
\* factor computed for it unchanged; hence so does every sequence of them.
C3_PanPreservesScale ==
    mode = "Dragging" =>
        \A inp \in FrameInputs :
            ~inp.drag_released =>
                \A after \in {CutoutAfter(inp)} :
                    /\ size(after) = size(current_cutout)
                    /\ ScalingFactor(after) = ScalingFactor(current_cutout)
                    /\ IsFinite(ScalingFactor(after).x)
                    /\ ModeAfter(inp) = "Dragging"

\* no zoom has happened, yet the cutout is neither the initial one nor the
\* drawable's: it has been panned, and the drag goes on
C3_witness ==
    /\ mode = "Dragging"
    /\ zooms = 0
    /\ frames = MaxFrames - 1
    /\ current_cutout # unit_cutout
    /\ current_cutout # get_cutout(drawable)

\* a frame with input inp is one the model takes from the current state
Taken(inp) ==
    /\ frames < MaxFrames
    /\ zooms >= MaxZooms => ~zooms_now(mode, inp)

\* the pointer of inp is present and inside the device rectangle
HoverInside(inp) ==
    /\ inp.hover_pos.some
    /\ ~RLt(inp.hover_pos.pos.x, gui_space.min.x)
    /\ ~RLt(gui_space.max.x, inp.hover_pos.pos.x)
    /\ ~RLt(inp.hover_pos.pos.y, gui_space.min.y)
    /\ ~RLt(gui_space.max.y, inp.hover_pos.pos.y)

\* C6: the mode starts as Normal, and for every input of a frame it goes
\* from Normal to Dragging exactly when the frame has a drag start with the
\* hover position present and inside the device rectangle, and from Dragging
\* to Normal exactly when the frame has a drag release; scroll, reset and
\* drag delta never change it.
C6_ModeTransitions ==
    /\ mode \in {"Normal", "Dragging"}
    /\ frames = 0 => mode = "Normal"
    /\ \A inp \in Inputs :
         /\ ModeAfter(inp) \in {"Normal", "Dragging"}
         /\ mode = "Normal" =>
              (ModeAfter(inp) = "Dragging" <=> inp.drag_started /\ HoverInside(inp))
         /\ mode = "Dragging" =>
              (ModeAfter(inp) = "Normal" <=> inp.drag_released)

\* a drag has started and has been released again
C6_witness ==
    /\ mode = "Normal"
    /\ frames = MaxFrames
    /\ zooms = 0
    /\ current_cutout # unit_cutout
    /\ current_cutout # get_cutout(drawable)

\* the inputs that hold the reset key, with the fields the arm of the
\* current mode reads ranging over all their values
ResetFrames ==
    { inp \in Inputs :
        /\ inp.key_space
        /\ Taken(inp)
        /\ mode = "Normal" => ~inp.drag_released /\ inp.drag_delta = Pt(0, 0)
        /\ mode = "Dragging" => ~inp.drag_started /\ inp.scroll_delta_y = R(0) }

\* C7 as claimed: in every frame in which the reset key occurs (and no
\* scroll zooms, no drag delta is applied), whatever the mode, the cutout
\* after the frame is the rectangle returned by get_cutout.
C7_ResetInAnyMode ==
    \A inp \in ResetFrames :
        ~(inp.hover_pos.some /\ OutsideDeadZone(inp)) /\ inp.drag_delta = Pt(0, 0)
            => CutoutAfter(inp) = get_cutout(drawable)

\* C7 as amended: in a frame that starts in mode Normal and has the reset
\* key, the cutout is set to the rectangle returned by get_cutout, and a
\* scroll taken in the same frame zooms that rectangle; in a frame that
\* starts in mode Dragging the reset key is ignored.
C7_ResetInNormalMode ==
    \A inp \in ResetFrames :
        \A after \in {CutoutAfter(inp)} :
            /\ mode = "Normal" /\ ~(inp.hover_pos.some /\ OutsideDeadZone(inp))
                   => after = get_cutout(drawable)
            /\ mode = "Normal" /\ inp.hover_pos.some /\ OutsideDeadZone(inp)
                   => /\ after # get_cutout(drawable)
                      /\ RMul(width(after), height(get_cutout(drawable)))
                           = RMul(height(after), width(get_cutout(drawable)))
                      /\ HoverInCanvas(inp, after)
                           = HoverInCanvas(inp, get_cutout(drawable))
            /\ mode = "Dragging"
                   => /\ after = CutoutAfter([inp EXCEPT !.key_space = FALSE])
                      /\ inp.drag_released \/ inp.drag_delta = Pt(0, 0)
                           => after = current_cutout

\* the reset key has put the drawable's rectangle in place of another cutout
C7_witness ==
    /\ mode = "Normal"
    /\ frames > 0
    /\ drawable # unit_cutout
    /\ current_cutout = get_cutout(drawable)

\* the inputs whose scroll is compared with no scroll: in mode Normal the
\* fields the Normal arm reads, in mode Dragging the scroll, the pointer and
\* the fields the Dragging arm reads
ScrollFrames ==
    { inp \in Inputs :
        /\ Taken(inp)
        /\ inp.scroll_delta_y # R(0)
        /\ mode = "Normal" => ~inp.drag_released /\ inp.drag_delta = Pt(0, 0)
        /\ mode = "Dragging" => ~inp.drag_started /\ ~inp.key_space }

WithoutScroll(inp) == [inp EXCEPT !.scroll_delta_y = R(0)]

\* C8: scroll guard.  Unless the mode is Normal, a hover position is present
\* and the scroll is outside the dead zone, the cutout after the frame is
\* the one the same frame without the scroll gives.
C8_ScrollGuard ==
    \A inp \in ScrollFrames :
        ~(mode = "Normal" /\ inp.hover_pos.some /\ OutsideDeadZone(inp))
            => CutoutAfter(inp) = CutoutAfter(WithoutScroll(inp))

\* a zoomed cutout that is being dragged: a scroll now is not taken
C8_witness ==
    /\ mode = "Dragging"
    /\ zooms > 0
    /\ frames < MaxFrames

\* the inputs without pointer, reset key and drag release
NoHoverFrames ==
    { inp \in Inputs :
        /\ Taken(inp)
        /\ ~inp.hover_pos.some
        /\ ~inp.key_space
        /\ ~inp.drag_released }

\* C9 as claimed: in every frame without hover position the scroll, drag
\* start and drag delta events leave the cutout and the mode unchanged.
C9_NoHoverNoEffect ==
    \A inp \in NoHoverFrames :
        /\ CutoutAfter(inp) = current_cutout
        /\ ModeAfter(inp) = mode

WithHover(inp) == [inp EXCEPT !.hover_pos = Some(Pt(25, 30))]

\* C9 as amended: in every frame without hover position that starts in mode
\* Normal, scroll and drag start leave the cutout and the mode unchanged; in
\* a frame that starts in mode Dragging the drag delta is applied to the
\* cutout whether or not a hover position is present.
C9_NoHoverNoEffectInNormal ==
    \A inp \in NoHoverFrames :
        \A after \in {CutoutAfter(inp)} :
            /\ mode = "Normal" => after = current_cutout /\ ModeAfter(inp) = mode
            /\ mode = "Dragging" =>
                 /\ ModeAfter(inp) = mode
                 /\ inp.scroll_delta_y = R(0) /\ ~inp.drag_started
                      => after = CutoutAfter(WithHover(inp))
                 /\ inp.drag_delta # Pt(0, 0) => after # current_cutout

\* a drag is going on and has moved the cutout
C9_witness ==
    /\ mode = "Dragging"
    /\ frames = MaxFrames - 1
    /\ zooms = 0
    /\ current_cutout.min # unit_cutout.min
    /\ current_cutout.min # get_cutout(drawable).min

\* 0.9 ^ (d / 50) for the scroll deltas of the model
PowerOfNineTenths(d) ==
    CASE d = R(50) -> Frac(9, 10)
      [] d = R(-50) -> Frac(10, 9)

\* C10: zoom transform.  A scroll d taken in a frame sets the size of the
\* cutout to the old size times z = 0.9 ^ (d / 50) and its min to
\* fix_point * (1 - z) + z * old min, fix_point being the hover position in
\* Logical space; d = 50, fix_point (10,10) and cutout [(0,0),(100,100)] give
\* size (90,90) and min (1,1); a positive d shrinks the cutout, a negative d
\* grows it.
C10_ZoomTransform ==
    /\ \A example \in {zoomed_cutout(Rect(Pt(0, 0), Pt(100, 100)), Pt(10, 10),
                                     zoom_factor(R(50)))} :
           size(example) = Pt(90, 90) /\ example.min = Pt(1, 1)
    /\ mode = "Normal" =>
         \A inp \in FrameInputs :
             inp.hover_pos.some /\ OutsideDeadZone(inp) =>
                 \A old \in {CutoutBeforeScroll(inp)}, new \in {CutoutAfter(inp)} :
                     \A z \in {PowerOfNineTenths(inp.scroll_delta_y)},
                        fix_point \in {HoverInCanvas(inp, old)} :
                         /\ width(new) = RMul(width(old), z)
                         /\ height(new) = RMul(height(old), z)
                         /\ new.min.x = RAdd(RMul(fix_point.x, RSub(R(1), z)),
                                             RMul(z, old.min.x))
                         /\ new.min.y = RAdd(RMul(fix_point.y, RSub(R(1), z)),
                                             RMul(z, old.min.y))
                         /\ RGt(inp.scroll_delta_y, R(0))
                              => RLt(width(new), width(old))
                         /\ RLt(inp.scroll_delta_y, R(0))
                              => RGt(width(new), width(old))

\* one notch of zooming in has been applied to the initial cutout
C10_witness ==
    /\ zooms = 1
    /\ frames = 1
    /\ size(current_cutout) = Pt(9, 9)

\* C11: drag translation.  In a frame that starts in mode Dragging without
\* a release, both corners of the cutout move by (-dx/sx, +dy/sy), (dx, dy)
\* being the drag delta and (sx, sy) the scaling factor computed from the
\* cutout before the translation; in a frame with a release the cutout is
\* left alone.
C11_DragTranslation ==
    mode = "Dragging" =>
        \A inp \in FrameInputs :
            \A after \in {CutoutAfter(inp)}, s \in {ScalingFactor(current_cutout)} :
                /\ inp.drag_released => after = current_cutout
                /\ ~inp.drag_released =>
                     \A by \in {Vec(RNeg(RDiv(inp.drag_delta.x, s.x)),
                                    RDiv(inp.drag_delta.y, s.y))} :
                         /\ IsFinite(by.x) /\ IsFinite(by.y)
                         /\ after.min.x = RAdd(current_cutout.min.x, by.x)
                         /\ after.min.y = RAdd(current_cutout.min.y, by.y)
                         /\ after.max.x = RAdd(current_cutout.max.x, by.x)
                         /\ after.max.y = RAdd(current_cutout.max.y, by.y)

\* the initial cutout has been dragged away under an aspect ratio of 2, and
\* the drag goes on
C11_witness ==
    /\ mode = "Dragging"
    /\ aspect_ratio = R(2)
    /\ frames < MaxFrames
    /\ size(current_cutout) = size(unit_cutout)
    /\ current_cutout # unit_cutout

\* the frames whose only event is the reset key, the pointer being anywhere
ResetOnlyFrames ==
    { inp \in FrameInputs :
        /\ inp.key_space
        /\ inp.scroll_delta_y = R(0)
        /\ ~inp.drag_started }

\* C14: idempotent reset.  Two frames in a row whose only event is the reset
\* key (same drawable, nothing in between) leave the cutout that one of them
\* leaves.
C14_IdempotentReset ==
    mode = "Normal" =>
        \A inp \in ResetOnlyFrames :
            \A once \in {CutoutAfter(inp)} :
                /\ ModeAfter(inp) = "Normal"
                /\ cutout_after(once, "Normal", gui_space, aspect_ratio,
                                drawable, inp) = once

\* two frames have passed without a zoom, the drawable's rectangle is the
\* cutout and another reset can follow
C14_witness ==
    /\ mode = "Normal"
    /\ frames = 2
    /\ zooms = 0
    /\ frames < MaxFrames
    /\ drawable # unit_cutout
    /\ current_cutout = get_cutout(drawable)

\* the frame with input inp, from the current state
Frame(inp) ==
    ui(current_cutout, mode, gui_space, aspect_ratio, drawable, inp)

\* the input of a frame without any event
Idle(inp) ==
    [inp EXCEPT !.key_space = FALSE, !.scroll_delta_y = R(0),
                !.drag_started = FALSE, !.drag_released = FALSE,
                !.drag_delta = Pt(0, 0)]

\* C15 as claimed: what a frame draws is positioned with the cutout that
\* the input of the same frame has already updated.
C15_DrawnAfterInput ==
    \A inp \in FrameInputs :
        \A frame \in {Frame(inp)} :
            frame.drawn = frame.state.current_cutout

\* C15 as amended: a frame draws with the cutout as it is when the frame
\* starts, and handles its input afterwards; the cutout the input leaves is
\* what the next frame draws with.
C15_DrawnBeforeInput ==
    \A inp \in FrameInputs :
        \A frame \in {Frame(inp)} :
            /\ frame.drawn = current_cutout
            /\ frame.state.current_cutout # current_cutout =>
                  /\ frame.drawn # frame.state.current_cutout
                  /\ ui(frame.state.current_cutout, frame.state.mode,
                        gui_space, aspect_ratio, drawable, Idle(inp)).drawn
                          = frame.state.current_cutout

\* a frame has been drawn, and the next one has an input that changes the
\* cutout it is drawn with
C15_witness ==
    /\ frames > 0
    /\ current_cutout # unit_cutout
    /\ \E inp \in FrameInputs :
          \E frame \in {Frame(inp)} :
              frame.drawn # frame.state.current_cutout

\* the fit of the current cutout into the current rectangle
Fit == calculate_padding_and_scaling_factor(gui_space, current_cutout,
                                            aspect_ratio)

\* position.rs:110-111 and 122, the y axis limits the current fit
YLimiting ==
    RLt(RMul(rect_aspect_ratio(current_cutout), aspect_ratio),
        rect_aspect_ratio(shrink(gui_space, R(MIN_PADDING))))

\* DeviceRect [(0,0),(1000,500)], Cutout [(0,0),(100,100)], AspectRatio 1.0
FitScenario ==
    /\ gui_space = Rect(Pt(0, 0), Pt(1000, 500))
    /\ current_cutout = Rect(Pt(0, 0), Pt(100, 100))
    /\ aspect_ratio = R(1)

\* C16 as claimed: in the fit scenario the y axis is limiting, the scaling
\* factor is (4.6, 4.6) and the padding is about (249, 20), taken as an x
\* padding within 5 of 249.
C16_FitScenarioAsClaimed ==
    FitScenario =>
        /\ YLimiting
        /\ Fit.scaling_factor = Vec(Frac(23, 5), Frac(23, 5))
        /\ RLe(RAbs(RSub(Fit.padding.x, R(249))), R(5))
        /\ Fit.padding.y = R(20)

\* C16 as amended: in the fit scenario the y axis is limiting, the scaling
\* factor is (4.6, 4.6) and the padding is (270, 20): the 460 wide content
\* is centred in the 1000 wide rectangle.
C16_FitScenario ==
    FitScenario =>
        /\ YLimiting
        /\ Fit.scaling_factor = Vec(Frac(23, 5), Frac(23, 5))
        /\ Fit.padding = Pt(270, 20)
        /\ RAdd(RMul(R(2), Fit.padding.x),
                RMul(width(current_cutout), Fit.scaling_factor.x))
              = width(gui_space)

\* the fit scenario after a frame has fitted the cutout to the drawable
C16_witness == FitScenario /\ frames > 0 /\ YLimiting

\* the clip rectangles of the painter: the one of a panel that holds the
\* widget with a margin of 8
ClipRects ==
    { Rect(VSub(gui_space.min, Pt(8, 8)), VAdd(gui_space.max, Pt(8, 8))) }

\* the coordinates of canvas-anchored axes: Placement::Canvas(c)
AxisSections == { R(-50), R(50), R(150) }

\* the base line of an axis of the kind with Placement::Canvas(c), as the
\* frame draws it
BaseLine(clip_rect, c, kind) ==
    get_base_line_points_for_canvas_placement(
        gui_space, current_cutout, aspect_ratio, bounding_box(clip_rect),
        c, kind)

\* a point of the visible region, converted to Canvas space
InCanvasSpace(p) ==
    to_canvas_space(Overlay(p), gui_space, current_cutout, aspect_ratio)

\* the coordinate of the kind's own axis: a Y axis stands at an x
Across(kind, v) == IF kind = "Y" THEN v.x ELSE v.y

\* the line at c from the one end of the region to the other
AcrossRegion(lo, hi, c, kind) ==
    IF kind = "Y"
    THEN <<Canvas(Vec(c, lo.y)), Canvas(Vec(c, hi.y))>>
    ELSE <<Canvas(Vec(lo.x, c)), Canvas(Vec(hi.x, c))>>

Stretch ==
    IF RGt(aspect_ratio, R(1)) THEN Vec(aspect_ratio, R(1))
    ELSE Vec(R(1), RDiv(R(1), aspect_ratio))

\* the device extents minus 2 * 20
Usable ==
    Vec(RSub(width(gui_space), R(2 * MIN_PADDING)),
        RSub(height(gui_space), R(2 * MIN_PADDING)))

\* the y axis is the limiting one: the cutout, stretched, is less wide for
\* its height than the usable area
YTighter ==
    RLt(RMul(RMul(width(current_cutout), aspect_ratio), Usable.y),
        RMul(Usable.x, height(current_cutout)))

\* the fit rule on the limiting axis (extent cutout, usable extent usable,
\* stretch own) and on the other axis (extent across of the cutout, device
\* extent device, stretch other), for the factor the rule gives the
\* limiting axis
FitRule(limiting, factor, cutout, own, across, device, other) ==
    /\ limiting.scaling_factor = factor
    /\ limiting.padding = R(MIN_PADDING)
    /\ across.scaling_factor = RMul(factor, RDiv(other, own))
    /\ across.padding =
          RDiv(RSub(device, RMul(cutout, across.scaling_factor)), R(2))

\* the returned scaling factor and padding of the x axis and of the y axis
FitX == [scaling_factor |-> Fit.scaling_factor.x, padding |-> Fit.padding.x]
FitY == [scaling_factor |-> Fit.scaling_factor.y, padding |-> Fit.padding.y]

\* C21 as claimed: the returned scaling factor of the limiting axis is
\* usable_extent / (cutout_extent * stretch_on_that_axis) and its padding
\* is 20; the other axis has that factor scaled by the ratio of the
\* stretches, and as padding half of the device extent that the scaled
\* cutout does not cover.
C21_FitRuleAsClaimed ==
    IF YTighter
    THEN FitRule(FitY,
                 RDiv(Usable.y, RMul(height(current_cutout), Stretch.y)),
                 width(current_cutout), Stretch.y,
                 FitX, width(gui_space), Stretch.x)
    ELSE FitRule(FitX,
                 RDiv(Usable.x, RMul(width(current_cutout), Stretch.x)),
                 height(current_cutout), Stretch.x,
                 FitY, height(gui_space), Stretch.y)

\* C21 as amended: the returned scaling factor of the limiting axis is
\* usable_extent / cutout_extent (the stretch of that axis cancels in what
\* is returned) and its padding is 20; the other axis has that factor
\* scaled by the ratio of the stretches, and as padding half of the device
\* extent that the scaled cutout does not cover.
C21_FitRule ==
    IF YTighter
    THEN FitRule(FitY,
                 RDiv(Usable.y, height(current_cutout)),
                 width(current_cutout), Stretch.y,
                 FitX, width(gui_space), Stretch.x)
    ELSE FitRule(FitX,
                 RDiv(Usable.x, width(current_cutout)),
                 height(current_cutout), Stretch.x,
                 FitY, height(gui_space), Stretch.y)

\* after a frame: the y axis limits the fit and is the stretched one
C21_witness ==
    /\ frames > 0
    /\ current_cutout # unit_cutout
    /\ aspect_ratio = Frac(1, 2)
    /\ YTighter
    /\ Fit.scaling_factor.y = RMul(R(2), Fit.scaling_factor.x)

\* the Device position of a Logical point under a cutout
OnDevice(p, cutout) ==
    to_gui_space(Canvas(p), gui_space, cutout, aspect_ratio)

\* C29: drag follows the pointer.  After a frame in mode Dragging that
\* applies the device delta (dx, dy), the Device position of every Logical
\* point is its Device position before the frame plus (dx, dy).
C29_DragFollowsPointer ==
    mode = "Dragging" =>
        \A inp \in FrameInputs :
            ~inp.drag_released =>
                \A after \in {Frame(inp).state.current_cutout} :
                    \A p \in ProbePoints :
                        OnDevice(p, after)
                            = VAdd(OnDevice(p, current_cutout), inp.drag_delta)

\* the second frame has panned the initial cutout by the device delta
\* (4, -2), under an aspect ratio other than 1, and the drag goes on
C29_witness ==
    /\ mode = "Dragging"
    /\ frames = 2
    /\ zooms = 0
    /\ aspect_ratio = R(2)
    /\ current_cutout # unit_cutout
    /\ OnDevice(Pt(3, -7), current_cutout)
         = VAdd(OnDevice(Pt(3, -7), unit_cutout), Pt(4, -2))

\* the input with its scroll the other way round
ScrolledBack(inp) == [inp EXCEPT !.scroll_delta_y = RNeg(inp.scroll_delta_y)]

\* C28: zoom is reversible.  A frame in mode Normal that zooms by the scroll
\* +d (no reset, no drag start), followed by a frame that zooms by the scroll
\* -d at the same hover position, under the same device rectangle and
\* aspect ratio, leaves the cutout that the first frame started from, and
\* the first frame does change it.
C28_ZoomReversible ==
    mode = "Normal" =>
        \A inp \in NormalInputs :
            zoom_guard(inp) /\ ~inp.key_space /\ ~inp.drag_started =>
                \A zoomed \in {Frame(inp).state} :
                    /\ zoomed.mode = "Normal"
                    /\ zoomed.current_cutout # current_cutout
                    /\ zoom_guard(ScrolledBack(inp))
                    /\ ui(zoomed.current_cutout, zoomed.mode, gui_space,
                          aspect_ratio, drawable,
                          ScrolledBack(inp)).state.current_cutout
                         = current_cutout

\* two zooms have been taken and the cutout is the one before them, which
\* is not the cutout of a reset
C28_witness ==
    /\ mode = "Normal"
    /\ zooms = 2
    /\ frames = 2
    /\ current_cutout = unit_cutout
    /\ current_cutout # get_cutout(drawable)

\* a corner of the current cutout in Overlay space
CutoutInOverlay(corner) ==
    to_overlay_space(Canvas(corner), gui_space, current_cutout, aspect_ratio)

\* C25: fitted content respects the margin.  For the device rectangle, the
\* cutout and the aspect ratio of every reachable state (positive extents,
\* aspect ratio > 0) both scaling factors are strictly positive, and the
\* image of the cutout in Overlay space lies inside the device rectangle
\* shrunk by 20 on every side and is centred in the device rectangle on
\* both axes.
C25_FitRespectsMargin ==
    /\ PositiveExtents(gui_space)
    /\ PositiveExtents(current_cutout)
    /\ RGt(aspect_ratio, R(0))
    /\ RGt(Fit.scaling_factor.x, R(0))
    /\ RGt(Fit.scaling_factor.y, R(0))
    /\ \A lo \in {CutoutInOverlay(current_cutout.min)},
          hi \in {CutoutInOverlay(current_cutout.max)} :
          /\ contains(shrink(gui_space, R(20)), lo)
          /\ contains(shrink(gui_space, R(20)), hi)
          /\ RLt(lo.x, hi.x) /\ RLt(lo.y, hi.y)
          /\ RAdd(lo.x, hi.x) = RAdd(gui_space.min.x, gui_space.max.x)
          /\ RAdd(lo.y, hi.y) = RAdd(gui_space.min.y, gui_space.max.y)

\* a zoomed cutout under an aspect ratio other than 1: its image touches
\* the margin on one axis and stays clear of it on the other
C25_witness ==
    /\ zooms > 0
    /\ aspect_ratio # R(1)
    /\ current_cutout.min # Pt(0, 0)
    /\ \/ RGt(Fit.padding.x, R(20)) /\ Fit.padding.y = R(20)
       \/ RGt(Fit.padding.y, R(20)) /\ Fit.padding.x = R(20)

----------------------------------------------------------------------------
(* Properties of the canvas under every report of the host *)

\* the inputs of the frames that can follow the current state
HostInputs ==
    { inp \in Inputs :
          /\ frames < MaxFrames
          /\ zooms >= MaxZooms => ~zooms_now(mode, inp) }

\* C24: mode tracks the host drag.  At the end of every frame in which the
\* host reports a drag release the mode is Normal, whatever else the host
\* reports in the same frame (a drag start included).
C24_ReleaseEndsDrag ==
    \A inp \in HostInputs :
        inp.drag_released => ModeAfter(inp) = "Normal"

\* the same input without a drag delta
NoDelta(inp) == [inp EXCEPT !.drag_delta = Pt(0, 0)]

\* C30: the frame that starts a drag does not pan.  In a frame that starts
\* in mode Normal and accepts a drag start the mode becomes Dragging and
\* the cutout the frame leaves is the one it leaves without its drag delta;
\* the same delta in the next frame translates that cutout.
C30_DragStartDoesNotPan ==
    mode = "Normal" =>
        \A inp \in HostInputs :
            drag_detected(gui_space, inp) =>
                \A after \in {Frame(inp).state} :
                    /\ after.mode = "Dragging"
                    /\ after.current_cutout = Frame(NoDelta(inp)).state.current_cutout
                    /\ inp.drag_delta # Pt(0, 0) /\ ~inp.drag_released =>
                          \A next \in {cutout_after(after.current_cutout,
                                                    after.mode, gui_space,
                                                    aspect_ratio, drawable, inp)} :
                              /\ next # after.current_cutout
                              /\ size(next) = size(after.current_cutout)

\* the first frame has started a drag and has zoomed, with a drag delta in
\* the host's report: the cutout is the zoomed one
C30_witness ==
    /\ mode = "Dragging"
    /\ frames = 1
    /\ zooms = 1
    /\ size(current_cutout) # size(unit_cutout)
    /\ \E inp \in Inputs :
          /\ inp.drag_delta # Pt(0, 0)
          /\ drag_detected(gui_space, inp)
          /\ current_cutout = cutout_after(unit_cutout, "Normal", gui_space,
                                           aspect_ratio, drawable, inp)

----------------------------------------------------------------------------
(* Properties of the canvas under any geometry *)

FiniteVec(v) == IsFinite(v.x) /\ IsFinite(v.y)

\* C12: degenerate geometry never divides by zero.  For the device
\* rectangle, the cutout and the aspect ratio of every state, a cutout of
\* zero width or height and an aspect ratio <= 0 included,
\* calculate_padding_and_scaling_factor returns a finite padding and a
\* finite scaling factor.
C12_DegenerateGeometryFinite ==
    \A ps \in {calculate_padding_and_scaling_factor(gui_space, current_cutout,
                                                     aspect_ratio)} :
        FiniteVec(ps.padding) /\ FiniteVec(ps.scaling_factor)

\* C13: cutout well-formedness.  After any sequence of frames, with any
\* drawable, the cutout has finite corners and min <= max componentwise.
C13_CutoutWellFormed ==
    /\ FiniteVec(current_cutout.min)
    /\ FiniteVec(current_cutout.max)
    /\ RLe(current_cutout.min.x, current_cutout.max.x)
    /\ RLe(current_cutout.min.y, current_cutout.max.y)

----------------------------------------------------------------------------
(* Properties of the tick planner *)

\* a call of get_absolute_tick on Tick::Automatic with a positive draw space
\* has returned
AutomaticReturned ==
    /\ planner.pc = "done"
    /\ planner.self.kind = "Automatic"
    /\ planner.arg.n > 0

\* C4: tick count bound.  For Tick::Automatic(n) with n >= 1 and a draw
\* space > 0, the returned tick t is positive and draw_space / t is at
\* least min(n, 4).
C4_TickCountBound ==
    AutomaticReturned /\ planner.self.wanted_num_ticks >= 1 =>
        /\ RGt(planner.result, R(0))
        /\ RLe(R(IF planner.self.wanted_num_ticks < 4
                 THEN planner.self.wanted_num_ticks ELSE 4),
               RDiv(planner.arg, planner.result))

\* a call with a count of at least 4 has returned a tick that the span
\* holds fewer than 5 times: the floor of 4 ticks is what kept it
C4_witness ==
    /\ AutomaticReturned
    /\ planner.self.wanted_num_ticks = 5
    /\ RLt(RDiv(planner.arg, planner.result), R(5))

\* the largest power of ten by which a base is scaled up or down
MaxExponent == 6

RECURSIVE PowerOfTen(_)
PowerOfTen(k) == IF k = 0 THEN 1 ELSE 10 * PowerOfTen(k - 1)

\* a positive integer without the zeros at its end
RECURSIVE WithoutZeros(_)
WithoutZeros(i) == IF i % 10 = 0 THEN WithoutZeros(i \div 10) ELSE i

\* t is one of {1, 2, 5, 25} x 10^k, k an integer
IsNiceTick(t) ==
    \/ t.d = 1 /\ t.n > 0 /\ WithoutZeros(t.n) \in {1, 2, 5, 25}
    \/ \E base \in {1, 2, 5, 25}, k \in 0..MaxExponent :
           t = Frac(base, PowerOfTen(k))

\* C5: nice tick.  For Tick::Automatic(n) and a draw space > 0 the returned
\* tick is one of {1, 2, 5, 25} x 10^k for an integer k, negative when the
\* shrink factor has been applied.
C5_NiceTick ==
    AutomaticReturned => IsNiceTick(planner.result)

\* a call has returned 25 x 10^k with k < 0
C5_witness ==
    /\ AutomaticReturned
    /\ planner.tick_shrink_factor # R(1)
    /\ planner.best_tick \in { 25, 250, 2500, 25000 }
    /\ planner.result.d > 1

\* a call of get_absolute_tick on Tick::Automatic(0) with a draw space >= 0
\* has returned
AutomaticZeroReturned ==
    /\ planner.pc = "done"
    /\ planner.self = Automatic(0)
    /\ planner.arg.n >= 0

\* the candidates in the order the search visits them, as pairs of the
\* round and the place in the list of the round
VisitedFirst(k, j, draw_space) ==
    /\ <<1, 2, 5, 25>>[j] * PowerOfTen(k) > draw_space
    /\ \A i \in 1..(j - 1) : <<1, 2, 5, 25>>[i] * PowerOfTen(k) <= draw_space
    /\ \A round \in 0..(k - 1) : 25 * PowerOfTen(round) <= draw_space

Visited ==
    { place \in (0..MaxExponent) \X (1..4) :
          PowerOfTen(place[1]) < planner.growing_tick }

CandidateAt(place) == <<1, 2, 5, 25>>[place[2]] * PowerOfTen(place[1])

\* the normalized span integer-divided by the candidate
CountAt(place) == as_u64(planner.draw_space) \div CandidateAt(place)

\* the distance of the count at a place from the desired count
MissAt(place) ==
    IF CountAt(place) < planner.self.wanted_num_ticks
    THEN planner.self.wanted_num_ticks - CountAt(place)
    ELSE CountAt(place) - planner.self.wanted_num_ticks

\* the count at the place is at least min(n, 4)
Dense(place) ==
    CountAt(place) >= (IF planner.self.wanted_num_ticks < 4
                       THEN planner.self.wanted_num_ticks ELSE 4)

\* place a is visited before place b
Before(a, b) == a[1] < b[1] \/ (a[1] = b[1] /\ a[2] < b[2])

\* C22: closest-density search.  For Tick::Automatic(n) with n >= 1 the
\* tick that get_best_tick_from_big chooses is a visited candidate with a
\* count >= min(n, 4); no visited candidate with such a count is closer to
\* n, and none that is visited earlier is as close.
C22_ClosestDensity ==
    AutomaticReturned /\ planner.self.wanted_num_ticks >= 1 =>
        \E chosen \in Visited :
            /\ CandidateAt(chosen) = planner.best_tick
            /\ Dense(chosen)
            /\ \A other \in Visited :
                  Dense(other) =>
                      /\ MissAt(chosen) <= MissAt(other)
                      /\ Before(other, chosen) => MissAt(chosen) < MissAt(other)

\* a call has returned a tick while a candidate visited later, with a count
\* at or above the floor, is as close to the desired count
C22_witness ==
    /\ AutomaticReturned
    /\ planner.self.wanted_num_ticks >= 1
    /\ \E chosen, later \in Visited :
          /\ CandidateAt(chosen) = planner.best_tick
          /\ Before(chosen, later)
          /\ Dense(later)
          /\ MissAt(later) = MissAt(chosen)

\* C26: planner termination.  Every call of get_absolute_tick, for every
\* Tick variant and every draw space >= 0 (0 with Automatic(n), n >= 1,
\* included), returns: the normalisation loop and the search loop finish.
C26_PlannerTerminates == <>(planner.pc = "done")

\* C27: no integer overflow in the tick search.  For every span that
\* `as u64` can give (up to its saturation at u64::MAX) and every desired
\* count, no round of get_best_tick_from_big multiplies beyond u64::MAX:
\* neither growing_tick * tick_option nor growing_tick * 10.
C27_NoOverflow ==
    planner.pc = "search" /\ planner.rest_draw_space # 0 =>
        ~round_overflows(planner)

----------------------------------------------------------------------------
(* Properties of the tick walk *)

\* the ends of the axis line along the axis, in Canvas space
WalkStart == on_axis(walker.kind, walker.start_on_canvas)
WalkEnd == on_axis(walker.kind, walker.end_on_canvas)

\* the integers k for which k x s lies in [start, end]
Multiples ==
    { k \in ((WalkStart.n * walker.mayor_tick_interval.d)
               \div (WalkStart.d * walker.mayor_tick_interval.n)) - 1 ..
            ((WalkEnd.n * walker.mayor_tick_interval.d)
               \div (WalkEnd.d * walker.mayor_tick_interval.n)) + 1 :
          /\ RLe(WalkStart, RMul(R(k), walker.mayor_tick_interval))
          /\ RLe(RMul(R(k), walker.mayor_tick_interval), WalkEnd) }

\* C23: tick walk.  For a positive tick spacing s and an axis line with
\* start <= end along the axis, draw_mayor_ticks draws, in increasing
\* order, exactly one tick at each integer multiple of s in [start, end]
\* and nothing else: the i-th tick is at the i-th smallest multiple, on the
\* line through the start of the axis line.
C23_TickWalk ==
    walker.pc = "done" =>
      \A multiples \in {Multiples} :
        /\ Len(walker.drawn) = Cardinality(multiples)
        /\ \A i \in 1..Len(walker.drawn) :
              \E k \in multiples :
                  /\ Cardinality({j \in multiples : j < k}) = i - 1
                  /\ walker.drawn[i] =
                        tick_pos(walker.kind,
                                 RMul(R(k), walker.mayor_tick_interval),
                                 walker.start_on_canvas)

\* a walk from a negative start that is no multiple of the spacing has
\* drawn ticks on either side of zero
C23_witness ==
    /\ walker.pc = "done"
    /\ RLt(WalkStart, R(0))
    /\ RDiv(WalkStart, walker.mayor_tick_interval).d # 1
    /\ Len(walker.drawn) >= 3
    /\ RLt(on_axis(walker.kind, walker.drawn[1].pos), R(0))
    /\ RGt(on_axis(walker.kind, walker.drawn[Len(walker.drawn)].pos), R(0))

----------------------------------------------------------------------------
(* Properties of the label printer *)

\* print_float has returned
Printed == printer.pc = "done"

\* the text is in scientific notation: a mantissa, an e and an exponent
IsScientific(text) == \E i \in DOMAIN text : text[i] = "e"

\* the text is the fixed form of sign and m: 6 fractional digits, cut to
\* five characters, without a decimal point at the end
IsFixed(text, sign, m) ==
    /\ ~IsScientific(text)
    /\ Len(text) <= 5
    /\ text[Len(text)] # "."
    /\ \E rest \in {<<>>, <<".">>} :
          text \o rest = SubSeq(sign \o format_fixed(m, 6), 1,
                                Len(text) + Len(rest))

\* C17 as claimed: with m = |x|, print_float gives scientific notation
\* exactly when m >= 10000 or 0.000001 <= m < 0.0001, "0" exactly when
\* m < 0.000001, and the cut fixed form in every other case.
C17_FormatSelectionAsClaimed ==
    Printed =>
        \A m \in {RAbs(printer.arg)} :
            /\ IsScientific(printer.text)
                   <=> \/ RLe(R(10000), m)
                       \/ RLe(Frac(1, 1000000), m) /\ RLt(m, Frac(1, 10000))
            /\ printer.text = <<"0">> <=> RLt(m, Frac(1, 1000000))
            /\ \/ IsScientific(printer.text)
               \/ printer.text = <<"0">>
               \/ IsFixed(printer.text, printer.sign, m)

\* C17 as amended: with m = |x|, print_float gives scientific notation
\* exactly when m >= 10000 or 0.000001 <= m <= 0.0001 (m = 0.0001 itself is
\* scientific), "0" exactly when m < 0.000001, and the cut fixed form in
\* every other case.
C17_FormatSelection ==
    Printed =>
        \A m \in {RAbs(printer.arg)} :
            /\ IsScientific(printer.text)
                   <=> \/ RLe(R(10000), m)
                       \/ RLe(Frac(1, 1000000), m) /\ RLe(m, Frac(1, 10000))
            /\ printer.text = <<"0">> <=> RLt(m, Frac(1, 1000000))
            /\ \/ IsScientific(printer.text)
               \/ printer.text = <<"0">>
               \/ IsFixed(printer.text, printer.sign, m)

\* print_float has printed 0.0001, in scientific notation
C17_witness ==
    /\ Printed
    /\ printer.arg = Frac(1, 10000)
    /\ printer.text = <<"1", ".", "0", "0", "e", "-", "4">>

\* print_float has returned for the argument 3.14159
Printed314159 == Printed /\ printer.arg = Frac(314159, 100000)

\* C18 as claimed: print_float(3.14159) returns "3.14".
C18_FixedExampleAsClaimed ==
    Printed314159 => printer.text = <<"3", ".", "1", "4">>

\* C18 as amended: print_float(3.14159) returns "3.141", the first five
\* characters of "3.141590", the format with 6 fractional digits; there is
\* no decimal point at its end to strip, and -3.14159 gives "-3.14".
C18_FixedExample ==
    /\ Printed314159 =>
          /\ printer.text = <<"3", ".", "1", "4", "1">>
          /\ format_fixed(printer.float, 6)
               = <<"3", ".", "1", "4", "1", "5", "9", "0">>
          /\ printer.text = SubSeq(format_fixed(printer.float, 6), 1, 5)
    /\ Printed /\ printer.arg = Frac(-314159, 100000) =>
          printer.text = <<"-", "3", ".", "1", "4">>

\* print_float has printed 3.14159 in the fixed form
C18_witness == Printed314159 /\ printer.form = "fixed"

====
